---- MODULE Spec2Model ----
(***************************************************************************)
(* VerilatorLinter.lint: the child.exec callback that turns Verilator's    *)
(* stderr text into per-file diagnostics and replaces the contents of the  *)
(* shared DiagnosticCollection.                                            *)
(*                                                                         *)
(* Text is a sequence of one-character strings.  The regular expressions   *)
(* of the source are operators over such sequences that return what        *)
(* RegExp.exec returns: whether there is a match and the named groups of   *)
(* the leftmost match under JavaScript's greedy, backtracking priorities.  *)
(***************************************************************************)
EXTENDS Integers, Sequences, FiniteSets, TLC

(***************************************************************************)
(* Character classes of the regular expressions.                           *)
(***************************************************************************)
Digit == {"0", "1", "2", "3", "4", "5", "6", "7", "8", "9"}

UpperCase ==
  {"A", "B", "C", "D", "E", "F", "G", "H", "I", "J", "K", "L", "M",
   "N", "O", "P", "Q", "R", "S", "T", "U", "V", "W", "X", "Y", "Z"}

LowerCase ==
  {"a", "b", "c", "d", "e", "f", "g", "h", "i", "j", "k", "l", "m",
   "n", "o", "p", "q", "r", "s", "t", "u", "v", "w", "x", "y", "z"}

\* \w
WordChar == UpperCase \cup LowerCase \cup Digit \cup {"_"}

\* [A-Z0-9]
CodeChar == UpperCase \cup Digit

\* \s (the members that can occur inside one line after the split)
WhiteSpace == {" ", "\t", "\r", "\f"}

\* (\S| )
IsPathChar(c) == c \notin WhiteSpace \/ c = " "

\* a group that did not participate in the match
undefined == <<"undefined">>

\* Number(undefined) and every value derived from it (none of the numbers
\* the model computes from digits reaches this value)
NaN == 0 - 1000000

\* Number.MAX_VALUE
MAX_VALUE == 1000000

(***************************************************************************)
(* String helpers.                                                         *)
(***************************************************************************)
startsWith(s, p) == Len(s) >= Len(p) /\ SubSeq(s, 1, Len(p)) = p

\* s has the literal p at index i
HasAt(s, i, p) == i >= 1 /\ i + Len(p) - 1 <= Len(s) /\ SubSeq(s, i, i + Len(p) - 1) = p

\* the index just after the longest run of characters of class C that starts at i
RECURSIVE RunEnd(_, _, _)
RunEnd(s, i, C) == IF i <= Len(s) /\ s[i] \in C THEN RunEnd(s, i + 1, C) ELSE i

\* the index just after the longest run of (\S| ) characters that starts at i
RECURSIVE PathRunEnd(_, _)
PathRunEnd(s, i) == IF i <= Len(s) /\ IsPathChar(s[i]) THEN PathRunEnd(s, i + 1) ELSE i

\* the index just after the longest run of "." characters (anything but a
\* line terminator) that starts at i
RECURSIVE DotRunEnd(_, _)
DotRunEnd(s, i) == IF i <= Len(s) /\ s[i] \notin {"\n", "\r"} THEN DotRunEnd(s, i + 1) ELSE i

Min(S) == CHOOSE x \in S : \A y \in S : x <= y

Max(S) == CHOOSE x \in S : \A y \in S : x >= y

\* Number(digits): the decimal value of a \d+ group, NaN for a group that is undefined
RECURSIVE DecimalValue(_, _)
DecimalValue(d, acc) ==
  IF d = <<>> THEN acc
  ELSE DecimalValue(Tail(d),
         acc * 10 + (CHOOSE v \in 0..9 :
                       <<"0", "1", "2", "3", "4", "5", "6", "7", "8", "9">>[v + 1] = Head(d)))

Number(g) == IF g = undefined THEN NaN ELSE DecimalValue(g, 0)

isNaN(x) == x = NaN

\* Number(group) - 1: NaN stays NaN
MinusOne(x) == IF isNaN(x) THEN NaN ELSE x - 1

(***************************************************************************)
(* stderr.split(/\r?\n/g)                                                  *)
(***************************************************************************)
RECURSIVE SplitFrom(_, _, _)
SplitFrom(text, from, i) ==
  IF i > Len(text) THEN <<SubSeq(text, from, Len(text))>>
  ELSE IF text[i] = "\n" THEN
    <<SubSeq(text, from, IF i > from /\ text[i - 1] = "\r" THEN i - 2 ELSE i - 1)>>
      \o SplitFrom(text, i + 1, i + 1)
  ELSE SplitFrom(text, from, i + 1)

split(text) == SplitFrom(text, 1, 1)

(***************************************************************************)
(* errorParserRegex (lines 163-185):                                       *)
(*   %(?<severity>\w+)(-(?<errorCode>[A-Z0-9]+))?:                         *)
(*   ((?<filePath>(\S| )+(\.svh|\.sv|\.SV|\.vh|\.vl|\.v)):                 *)
(*    ((?<lineNumber>\d+):)?((?<columnNumber>\d+):)? )?(?<verboseError>.* ) *)
(***************************************************************************)
FileExtensions ==
  << <<".", "s", "v", "h">>, <<".", "s", "v">>, <<".", "S", "V">>,
     <<".", "v", "h">>, <<".", "v", "l">>, <<".", "v">> >>

NoMatch == [matched |-> FALSE]

\* ":((?<lineNumber>\d+):)?((?<columnNumber>\d+):)? " tried at index c (the ":"
\* after the extension), d1 and d2 being the ends of the two runs of digits;
\* greedy: both numbers, then one, then none
NumbersWith(s, c, d1, d2) ==
  IF ~HasAt(s, c, <<":">>) THEN NoMatch
  ELSE IF d1 > c + 1 /\ HasAt(s, d1, <<":">>) /\ d2 > d1 + 1 /\ HasAt(s, d2, <<":", " ">>)
    THEN [matched |-> TRUE, lineNumber |-> SubSeq(s, c + 1, d1 - 1),
          columnNumber |-> SubSeq(s, d1 + 1, d2 - 1), next |-> d2 + 2]
  ELSE IF d1 > c + 1 /\ HasAt(s, d1, <<":", " ">>)
    THEN [matched |-> TRUE, lineNumber |-> SubSeq(s, c + 1, d1 - 1),
          columnNumber |-> undefined, next |-> d1 + 2]
  ELSE IF HasAt(s, c + 1, <<" ">>)
    THEN [matched |-> TRUE, lineNumber |-> undefined,
          columnNumber |-> undefined, next |-> c + 2]
  ELSE NoMatch

NumbersAt(s, c) ==
  NumbersWith(s, c, RunEnd(s, c + 1, Digit), RunEnd(s, RunEnd(s, c + 1, Digit) + 1, Digit))

\* extension x ends exactly at index e, after at least one path character,
\* the path starting at index a
ExtensionIs(s, a, e, x) ==
  /\ e - Len(x) + 1 > a
  /\ HasAt(s, e - Len(x) + 1, x)
  /\ \A j \in a..(e - Len(x)) : IsPathChar(s[j])

ExtensionEndsAt(s, a, e) ==
  \E k \in 1..Len(FileExtensions) : ExtensionIs(s, a, e, FileExtensions[k])

LocationWith(s, a, e, n) ==
  [matched |-> TRUE, filePath |-> SubSeq(s, a, e), lineNumber |-> n.lineNumber,
   columnNumber |-> n.columnNumber, next |-> n.next]

\* (\S| )+ is greedy: the file path ends at the last of the ends
LocationAmong(s, a, ends) ==
  IF ends = {} THEN NoMatch ELSE LocationWith(s, a, Max(ends), NumbersAt(s, Max(ends) + 1))

\* the optional location group tried at index a: the ends are the extensions
\* after which the numbers and the space match
LocationAt(s, a) ==
  LocationAmong(s, a,
    {e \in a..Len(s) : ExtensionEndsAt(s, a, e) /\ NumbersAt(s, e + 1).matched})

\* "(-(?<errorCode>[A-Z0-9]+))?" matches the code between w and c
CodeAt(s, w, c) == HasAt(s, w, <<"-">>) /\ c > w + 1 /\ HasAt(s, c, <<":", " ">>)

\* "%(?<severity>\w+)(-(?<errorCode>[A-Z0-9]+))?: " at index i, the word
\* ending before w and the run of code characters before c
HeaderPrefix(s, i, w, c) ==
  HasAt(s, i, <<"%">>) /\ w > i + 1 /\ (CodeAt(s, w, c) \/ HasAt(s, w, <<":", " ">>))

HeaderPrefixAt(s, i) ==
  HeaderPrefix(s, i, RunEnd(s, i + 1, WordChar),
               RunEnd(s, RunEnd(s, i + 1, WordChar) + 1, CodeChar))

\* the groups of a match at index i; a is the index after ": "
HeaderGroups(s, i, w, c, hasCode, a, loc) ==
  [matched |-> TRUE,
   severity |-> SubSeq(s, i + 1, w - 1),
   errorCode |-> IF hasCode THEN SubSeq(s, w + 1, c - 1) ELSE undefined,
   filePath |-> IF loc.matched THEN loc.filePath ELSE undefined,
   lineNumber |-> IF loc.matched THEN loc.lineNumber ELSE undefined,
   columnNumber |-> IF loc.matched THEN loc.columnNumber ELSE undefined,
   verboseError |->
     IF loc.matched THEN SubSeq(s, loc.next, DotRunEnd(s, loc.next) - 1)
     ELSE SubSeq(s, a, DotRunEnd(s, a) - 1)]

HeaderAfter(s, i, w, c, hasCode, a) ==
  HeaderGroups(s, i, w, c, hasCode, a, LocationAt(s, a))

HeaderWith(s, i, w, c) ==
  HeaderAfter(s, i, w, c, CodeAt(s, w, c), IF CodeAt(s, w, c) THEN c + 2 ELSE w + 2)

\* the whole expression tried at an index i where the prefix matches
errorParserRegexAt(s, i) ==
  HeaderWith(s, i, RunEnd(s, i + 1, WordChar),
             RunEnd(s, RunEnd(s, i + 1, WordChar) + 1, CodeChar))

errorParserRegexAmong(s, starts) ==
  IF starts = {} THEN NoMatch ELSE errorParserRegexAt(s, Min(starts))

\* errorParserRegex.exec(line): the leftmost match, or null (NoMatch)
errorParserRegex(s) ==
  errorParserRegexAmong(s, {i \in 1..Len(s) : HeaderPrefixAt(s, i)})

(***************************************************************************)
(* topRelatedInfoRegex (line 232): /\s+: \.\.\. (?<verboseError>(\S| )+)/  *)
(***************************************************************************)
topRelatedInfoAmong(s, colons) ==
  IF colons = {} THEN NoMatch
  ELSE [matched |-> TRUE,
        verboseError |-> SubSeq(s, Min(colons) + 6, PathRunEnd(s, Min(colons) + 6) - 1)]

topRelatedInfoRegex(s) ==
  topRelatedInfoAmong(s,
    {c \in 2..Len(s) :
       /\ s[c - 1] \in WhiteSpace
       /\ HasAt(s, c, <<":", " ", ".", ".", ".", " ">>)
       /\ c + 6 <= Len(s) /\ IsPathChar(s[c + 6])})

(***************************************************************************)
(* highlightRegex (line 257): /\|\s+(?<highlight>\^~* )/                   *)
(***************************************************************************)
\* the caret is at index c
highlightFrom(s, c) ==
  [matched |-> TRUE, highlight |-> SubSeq(s, c, RunEnd(s, c + 1, {"~"}) - 1)]

highlightAmong(s, bars) ==
  IF bars = {} THEN NoMatch ELSE highlightFrom(s, RunEnd(s, Min(bars) + 1, WhiteSpace))

highlightRegex(s) ==
  highlightAmong(s,
    {i \in 1..Len(s) :
       /\ s[i] = "|"
       /\ RunEnd(s, i + 1, WhiteSpace) > i + 1
       /\ HasAt(s, RunEnd(s, i + 1, WhiteSpace), <<"^">>)})

(***************************************************************************)
(* bottomMessageRegex (line 305):                                          *)
(*   /\s+((?<filePath>(\S| )+(\.svh|\.sv|\.SV|\.vh|\.vl|\.v)):             *)
(*        (?<lineNumber>\d+):(?<columnNumber>\d+):)?                       *)
(*    \.\.\. (?<verboseError>(\S| )+)/                                     *)
(***************************************************************************)
\* " \.\.\. (\S| )+" at index p
DotsAt(s, p) ==
  HasAt(s, p, <<" ", ".", ".", ".", " ">>) /\ p + 5 <= Len(s) /\ IsPathChar(s[p + 5])

\* ":(\d+):(\d+):" at index c and then the dots, d1 and d2 being the ends of
\* the two runs of digits
BottomNumbersWith(s, c, d1, d2) ==
  /\ HasAt(s, c, <<":">>) /\ d1 > c + 1 /\ HasAt(s, d1, <<":">>)
  /\ d2 > d1 + 1 /\ HasAt(s, d2, <<":">>) /\ DotsAt(s, d2 + 1)

BottomNumbersAt(s, c) ==
  BottomNumbersWith(s, c, RunEnd(s, c + 1, Digit),
                    RunEnd(s, RunEnd(s, c + 1, Digit) + 1, Digit))

\* the groups when the location group matched: the path is s[p..e]
BottomLocatedWith(s, p, e, d1, d2) ==
  [matched |-> TRUE, filePath |-> SubSeq(s, p, e),
   lineNumber |-> SubSeq(s, e + 2, d1 - 1),
   columnNumber |-> SubSeq(s, d1 + 1, d2 - 1),
   verboseError |-> SubSeq(s, d2 + 6, PathRunEnd(s, d2 + 6) - 1)]

BottomLocated(s, p, e) ==
  BottomLocatedWith(s, p, e, RunEnd(s, e + 2, Digit),
                    RunEnd(s, RunEnd(s, e + 2, Digit) + 1, Digit))

\* the rest of the expression after \s+ has consumed the characters before p:
\* the location group is tried first, its path as long as possible
BottomAmong(s, p, ends) ==
  IF ends # {} THEN BottomLocated(s, p, Max(ends))
  ELSE IF DotsAt(s, p) THEN
    [matched |-> TRUE, filePath |-> undefined, lineNumber |-> undefined,
     columnNumber |-> undefined,
     verboseError |-> SubSeq(s, p + 5, PathRunEnd(s, p + 5) - 1)]
  ELSE NoMatch

BottomEnds(s, p) ==
  {e \in p..Len(s) : ExtensionEndsAt(s, p, e) /\ BottomNumbersAt(s, e + 1)}

BottomAfterSpace(s, p) == BottomAmong(s, p, BottomEnds(s, p))

\* the rest of the expression matches after \s+ has consumed the characters before p
BottomMatchesAfterSpace(s, p) == BottomEnds(s, p) # {} \/ DotsAt(s, p)

\* \s+ starts at index i: it is greedy and gives characters back
BottomStops(s, i) ==
  {p \in (i + 1)..RunEnd(s, i, WhiteSpace) : BottomMatchesAfterSpace(s, p)}

bottomMessageAmong(s, starts) ==
  IF starts = {} THEN NoMatch
  ELSE BottomAfterSpace(s, Max(BottomStops(s, Min(starts))))

bottomMessageRegex(s) ==
  bottomMessageAmong(s, {i \in 1..Len(s) : BottomStops(s, i) # {}})

(***************************************************************************)
(* The vscode values the callback builds.                                  *)
(***************************************************************************)
Position(line, character) == [line |-> line, character |-> character]

\* new vscode.Range(startLine, startCharacter, endLine, endCharacter): the
\* constructor orders the two positions
Range(l1, c1, l2, c2) ==
  IF l2 < l1 \/ (l2 = l1 /\ c2 < c1)
    THEN [start |-> Position(l2, c2), end |-> Position(l1, c1)]
    ELSE [start |-> Position(l1, c1), end |-> Position(l2, c2)]

\* vscode.Uri.file(path): one resource per path
Uri_file(path) == [scheme |-> "file", fsPath |-> path]

Location(uri, range) == [uri |-> uri, range |-> range]

DiagnosticRelatedInformation(location, message) ==
  [location |-> location, message |-> message]

\* process.platform === 'win32' (line 9); the model runs on the other platforms
isWindows == FALSE

\* filePath.replace(/(\\\\)|(\\)/g, "/") (line 209)
RECURSIVE replaceBackslashes(_)
replaceBackslashes(path) ==
  IF path = <<>> THEN <<>>
  ELSE IF HasAt(path, 1, <<"\\", "\\">>) THEN <<"/">> \o replaceBackslashes(SubSeq(path, 3, Len(path)))
  ELSE IF Head(path) = "\\" THEN <<"/">> \o replaceBackslashes(Tail(path))
  ELSE <<Head(path)>> \o replaceBackslashes(Tail(path))

convertToSeverity(severityString) ==
  IF startsWith(severityString, <<"E", "r", "r", "o", "r">>) THEN "Error"
  ELSE IF startsWith(severityString, <<"W", "a", "r", "n", "i", "n", "g">>) THEN "Warning"
  ELSE "Information"

(***************************************************************************)
(* The body of stderr.split(...).forEach (lines 116-438).  Lines are       *)
(* indexed from 1; currentLineNumber n of the model is index n - 1 of the  *)
(* source.                                                                 *)
(***************************************************************************)
\* lines 122-138: the backward scan for the message type
RECURSIVE lastDiagMessageType(_, _)
lastDiagMessageType(stderrLines, lineIndex) ==
  IF lineIndex < 1 THEN "Error"
  ELSE IF startsWith(stderrLines[lineIndex], <<"%", "E", "r", "r", "o", "r">>) THEN "Error"
  ELSE IF startsWith(stderrLines[lineIndex], <<"%", "W", "a", "r", "n", "i", "n", "g">>)
    THEN "Warning"
  ELSE lastDiagMessageType(stderrLines, lineIndex - 1)

\* lines 236-253: the additional messages that follow the header directly
RECURSIVE relatedInfoMsg(_, _)
relatedInfoMsg(stderrLines, j) ==
  IF j > Len(stderrLines) THEN <<>>
  ELSE IF ~topRelatedInfoRegex(stderrLines[j]).matched THEN <<>>
  ELSE <<topRelatedInfoRegex(stderrLines[j]).verboseError>> \o relatedInfoMsg(stderrLines, j + 1)

\* a highlight scan that does not stop at the next header
RECURSIVE endColNumPastHeader(_, _, _)
endColNumPastHeader(stderrLines, j, colNum) ==
  IF j > Len(stderrLines) THEN MAX_VALUE
  ELSE IF highlightRegex(stderrLines[j]).matched
    THEN colNum + Len(highlightRegex(stderrLines[j]).highlight)
  ELSE endColNumPastHeader(stderrLines, j + 1, colNum)

\* lines 226 and 270-289: the end column from the first highlight of the block
RECURSIVE endColNum(_, _, _)
endColNum(stderrLines, j, colNum) ==
  IF j > Len(stderrLines) THEN MAX_VALUE
  ELSE IF startsWith(stderrLines[j], <<"%">>) THEN MAX_VALUE
  ELSE IF highlightRegex(stderrLines[j]).matched
    THEN colNum + Len(highlightRegex(stderrLines[j]).highlight)
  ELSE endColNum(stderrLines, j + 1, colNum)

\* lines 338-369: the related information of one bottom message
bottomMessage(matched, filePath, lineNum, colNum, endCol) ==
  DiagnosticRelatedInformation(
    IF matched.filePath # undefined
      THEN Location(Uri_file(matched.filePath),
                    Range(MinusOne(Number(matched.lineNumber)),
                          MinusOne(Number(matched.columnNumber)),
                          MinusOne(Number(matched.lineNumber)), MAX_VALUE))
      ELSE Location(Uri_file(filePath), Range(lineNum, colNum, lineNum, endCol)),
    matched.verboseError)

\* lines 373-394: the last bottom message gets the range of the highlight
refineWith(msgs, newStart, highlightString) ==
  [msgs EXCEPT ![Len(msgs)].location.range =
     Range(newStart.line, newStart.character,
           newStart.line, newStart.character + Len(highlightString))]

\* a refinement that is applied only to a range no highlight has sized yet
refineLastOnce(msgs, highlightString) ==
  IF msgs[Len(msgs)].location.range.end.character = MAX_VALUE
    THEN refineWith(msgs, msgs[Len(msgs)].location.range.start, highlightString)
    ELSE msgs

refineLast(msgs, highlightString) ==
  refineWith(msgs, msgs[Len(msgs)].location.range.start, highlightString)

\* lines 331-394: one line of the scan; isBottomHighlight was computed before the push
bottomRefine(pushed, isBottomHighlight, highlight) ==
  IF isBottomHighlight THEN refineLast(pushed, highlight.highlight) ELSE pushed

bottomStep(msgs, matched, highlight, filePath, lineNum, colNum, endCol) ==
  bottomRefine(
    IF matched.matched
      THEN Append(msgs, bottomMessage(matched, filePath, lineNum, colNum, endCol))
      ELSE msgs,
    Len(msgs) > 0 /\ highlight.matched,
    highlight)

\* lines 310-395: the scan for bottom messages and their highlights
RECURSIVE bottomMessages(_, _, _, _, _, _, _)
bottomMessages(stderrLines, j, filePath, lineNum, colNum, endCol, msgs) ==
  IF j > Len(stderrLines) THEN msgs
  ELSE IF startsWith(stderrLines[j], <<"%">>) THEN msgs
  ELSE bottomMessages(stderrLines, j + 1, filePath, lineNum, colNum, endCol,
         bottomStep(msgs, bottomMessageRegex(stderrLines[j]), highlightRegex(stderrLines[j]),
                    filePath, lineNum, colNum, endCol))

\* lines 402-434: the diagnostic, its range and the location of its elaborations given
diagWith(rex, range, currentMsgLocation, bottom, elaborations) ==
  [severity |-> convertToSeverity(rex.severity),
   range |-> range,
   message |-> rex.verboseError,
   source |-> "verilator",
   code |-> rex.errorCode,
   relatedInformation |->
     bottom \o [k \in 1..Len(elaborations) |->
                  DiagnosticRelatedInformation(currentMsgLocation, elaborations[k])]]

diagRanged(stderrLines, n, rex, filePath, lineNum, colNum, endCol, range) ==
  diagWith(rex, range, Location(Uri_file(filePath), range),
           bottomMessages(stderrLines, n + 1, filePath, lineNum, colNum, endCol, <<>>),
           relatedInfoMsg(stderrLines, n + 1))

diagAt(stderrLines, n, rex, filePath, lineNum, colNum, endCol) ==
  diagRanged(stderrLines, n, rex, filePath, lineNum, colNum, endCol,
             Range(lineNum, colNum, lineNum, endCol))

diagNumbered(stderrLines, n, rex, filePath, lineNum, colNum) ==
  diagAt(stderrLines, n, rex, filePath, lineNum, colNum,
         endColNum(stderrLines, n + 1, colNum))

\* lines 221-224: colNum = isNaN(colNum) ? 0 : colNum
colNumOf(raw) == IF isNaN(raw) THEN 0 ELSE raw

\* lines 220-434: the diagnostic of the header at index n
mainMessageDiag(stderrLines, n, rex, filePath) ==
  diagNumbered(stderrLines, n, rex, filePath, MinusOne(Number(rex.lineNumber)),
               colNumOf(MinusOne(Number(rex.columnNumber))))

EmptyMap == [k \in {} |-> <<>>]

\* lines 214-217: filesDiag.has / filesDiag.set(filePath, [])
ensureList(map, filePath) ==
  IF filePath \in DOMAIN map THEN map ELSE map @@ (filePath :> <<>>)

\* line 417: filesDiag.get(filePath).push(mainMessageDiag)
pushDiag(map, filePath, diag) == [map EXCEPT ![filePath] = Append(@, diag)]

logCall(level, line) == [level |-> level, text |-> line]

\* lines 200-437: a header with a file path; logged is what the earlier lines
\* and the passthrough of this one left
headerWithPath(stderrLines, n, logged, rex, filePath) ==
  IF isNaN(MinusOne(Number(rex.lineNumber))) THEN
    [logged EXCEPT !.filesDiag = ensureList(@, filePath)]
  ELSE
    [logged EXCEPT !.filesDiag =
       pushDiag(ensureList(@, filePath), filePath,
                mainMessageDiag(stderrLines, n, rex, filePath))]

\* lines 187-437: a line that starts with "%"; rex.groups of a null rex is a
\* TypeError (line 191)
headerLine(stderrLines, n, acc, rex) ==
  IF ~rex.matched THEN [acc EXCEPT !.threw = TRUE]
  ELSE IF rex.filePath = undefined THEN
    [acc EXCEPT !.log = Append(@,
       logCall(IF rex.severity = <<"W", "a", "r", "n", "i", "n", "g">> THEN "warn" ELSE "error",
               stderrLines[n]))]
  ELSE
    headerWithPath(stderrLines, n,
      [acc EXCEPT !.log = Append(@,
         logCall(IF rex.severity = <<"W", "a", "r", "n", "i", "n", "g">> THEN "warn" ELSE "error",
                 stderrLines[n]))],
      rex,
      IF isWindows THEN replaceBackslashes(rex.filePath) ELSE rex.filePath)

\* one call of the forEach callback, for the line at index n.  acc is what the
\* earlier calls left: filesDiag, the calls made on the logger, and whether a
\* call threw
lineCallback(stderrLines, n, acc) ==
  IF ~startsWith(stderrLines[n], <<"%">>) THEN
    [acc EXCEPT !.log = Append(@,
       logCall(IF lastDiagMessageType(stderrLines, n) = "Warning" THEN "warn" ELSE "error",
               stderrLines[n]))]
  ELSE headerLine(stderrLines, n, acc, errorParserRegex(stderrLines[n]))

\* the loop goes on after a call that returned
forEachNext(stderrLines, n, r) ==
  IF r.threw THEN r ELSE [r EXCEPT !.scanned = n]

\* forEach: the calls in index order; an exception ends the loop
RECURSIVE forEach(_, _, _)
forEach(stderrLines, n, acc) ==
  IF n > Len(stderrLines) \/ acc.threw THEN acc
  ELSE forEach(stderrLines, n + 1, forEachNext(stderrLines, n, lineCallback(stderrLines, n, acc)))

\* lines 114-438: the parse of one stderr text
parse(stderr) ==
  forEach(split(stderr), 1,
          [filesDiag |-> EmptyMap, log |-> <<>>, threw |-> FALSE, scanned |-> 0])

(***************************************************************************)
(* The lines the input texts are made of.                                  *)
(***************************************************************************)
\* an Error header with file, line and column: "%Error: a.v:2:3: m"
HeaderA ==
  <<"%","E","r","r","o","r",":"," ","a",".","v",":","2",":","3",":"," ","m">>

\* a Warning header with an error code, another file and no column: "%Warning-W1: b.v:4: n"
HeaderB ==
  <<"%","W","a","r","n","i","n","g","-","W","1",":"," ","b",".","v",":","4",":"," ","n">>

\* a header with a file path and no line number: "%Error: a.v: q"
HeaderNoLine ==
  <<"%","E","r","r","o","r",":"," ","a",".","v",":"," ","q">>

\* a header of another severity word, with a location: "%Info: a.v:7:1: k"
HeaderInfo ==
  <<"%","I","n","f","o",":"," ","a",".","v",":","7",":","1",":"," ","k">>

\* a header without a location: "%Note: j"
HeaderNoLocation ==
  <<"%","N","o","t","e",":"," ","j">>

\* a line that starts with % and does not fit the header grammar: "%"
Malformed ==
  <<"%">>

\* a plain line: "x"
PlainLine ==
  <<"x">>

\* a header whose message holds the text of an elaboration line: "%Warning-W1: b.v:4: n : ... z"
HeaderElab ==
  <<"%","W","a","r","n","i","n","g","-","W","1",":"," ","b",".","v",":","4",":"," ","n",
    " ",":"," ",".",".","."," ","z">>

\* an elaboration line: " : ... e"
Elaboration ==
  <<" ",":"," ",".",".","."," ","e">>

\* a highlight line: a caret and two tildes: " | ^~~"
Highlight3 ==
  <<" ","|"," ","^","~","~">>

\* a highlight line: a caret alone: " | ^"
Highlight1 ==
  <<" ","|"," ","^">>

\* a bottom message without a location: "  ... s"
BottomPlainLine ==
  <<" "," ",".",".","."," ","s">>

\* a bottom message with its own location: "  c.v:5:6: ... t"
BottomLocatedLine ==
  <<" "," ","c",".","v",":","5",":","6",":"," ",".",".","."," ","t">>

\* a bottom message and a highlight on one line: "  ... u | ^~"
BottomHighlightLine ==
  <<" "," ",".",".","."," ","u"," ","|"," ","^","~">>

EmptyLine == <<>>

\* the lines of the overlapping passes: two headers for two files
PubCorpus == {HeaderA, HeaderB}

\* the lines of the header, grouping and passthrough checks
ParseCorpus ==
  {HeaderA, HeaderB, HeaderNoLine, HeaderInfo, HeaderNoLocation, Malformed, PlainLine,
   EmptyLine}

\* the lines that follow the header of a diagnostic block, the next header included
BlockCorpus ==
  {HeaderElab, Elaboration, Highlight3, Highlight1, BottomPlainLine, BottomLocatedLine,
   BottomHighlightLine}

\* lint calls of one run
MaxPasses == 2

\* lines of a text of the overlapping passes
MaxPubLines == 2

\* lines of a text of the header checks
MaxLines == 3

\* lines after the first header of a block text
MaxTail == 3

RECURSIVE Join(_)
Join(ls) ==
  IF ls = <<>> THEN <<>>
  ELSE IF Len(ls) = 1 THEN ls[1]
  ELSE ls[1] \o <<"\n">> \o Join(Tail(ls))

SeqsUpTo(C, n) == UNION {[1..k -> C] : k \in 0..n}

PubTexts == {Join(ls) : ls \in SeqsUpTo(PubCorpus, MaxPubLines)}

ParseTexts == {Join(ls) : ls \in SeqsUpTo(ParseCorpus, MaxLines)}

BlockTexts == {Join(<<HeaderA>> \o ls) : ls \in SeqsUpTo(BlockCorpus, MaxTail)}

(***************************************************************************)
(* The state: the DiagnosticCollection shared by all passes, the child     *)
(* processes started by lint and not yet called back, and what the most    *)
(* recent exec callback did.                                               *)
(***************************************************************************)
VARIABLES
  diagnosticCollection,  \* uri -> the diagnostics the editor shows for it
  invoked,               \* the number of lint calls so far; pass k is the k-th call
  stderrOf,              \* stderrOf[k]: the stderr text the child of pass k writes
  pending,               \* the passes whose exec callback has not run yet
  finished,              \* the passes whose callback has run, in the order they ran
  stderrLines,           \* the most recent callback: the lines of its stderr
  filesDiag,             \* the most recent callback: its filesDiag map
  passthrough,           \* the most recent callback: its logger.warn/error calls
  threw,                 \* the most recent callback: it ended with an exception
  scanned                \* the most recent callback: lines whose forEach call returned

vars ==
  <<diagnosticCollection, invoked, stderrOf, pending, finished, stderrLines, filesDiag,
    passthrough, threw, scanned>>

Init ==
  /\ diagnosticCollection = EmptyMap
  /\ invoked = 0
  /\ stderrOf = <<>>
  /\ pending = {}
  /\ finished = <<>>
  /\ stderrLines = <<>>
  /\ filesDiag = EmptyMap
  /\ passthrough = <<>>
  /\ threw = FALSE
  /\ scanned = 0

\* clear() that leaves the earlier entries in place
clearKeepsEntries(collection) == collection

\* diagnosticCollection.clear() (line 442)
clear(collection) == EmptyMap

\* diagnosticCollection.set(uri, issuesArray) (lines 447-450)
set(collection, uri, issuesArray) ==
  [u \in DOMAIN collection \cup {uri} |-> IF u = uri THEN issuesArray ELSE collection[u]]

\* filesDiag.forEach(... diagnosticCollection.set ...) (lines 444-452)
RECURSIVE setEach(_, _, _)
setEach(collection, map, keys) ==
  IF keys = {} THEN collection
  ELSE LET fileName == CHOOSE k \in keys : TRUE
       IN  setEach(set(collection, Uri_file(fileName), map[fileName]), map, keys \ {fileName})

\* lines 440-452: what the callback leaves in the collection
publish(collection, map) == setEach(clear(collection), map, DOMAIN map)

\* lint(doc) (lines 68-110): child.exec starts Verilator; the text it will
\* write to stderr is one of texts
Lint(texts, maxPasses) ==
  /\ invoked < maxPasses
  /\ \E text \in texts :
       /\ invoked' = invoked + 1
       /\ stderrOf' = Append(stderrOf, text)
       /\ pending' = pending \cup {invoked + 1}
  /\ UNCHANGED <<diagnosticCollection, finished, stderrLines, filesDiag, passthrough,
                 threw, scanned>>

\* the exec callback of pass id (lines 111-453), run to its end or to the
\* exception that ends it
ExecCallback(id) ==
  /\ id \in pending
  /\ LET r == parse(stderrOf[id])
     IN  /\ stderrLines' = split(stderrOf[id])
         /\ filesDiag' = r.filesDiag
         /\ passthrough' = r.log
         /\ threw' = r.threw
         /\ scanned' = r.scanned
         /\ diagnosticCollection' =
              IF r.threw THEN diagnosticCollection
              ELSE publish(diagnosticCollection, r.filesDiag)
  /\ pending' = pending \ {id}
  /\ finished' = Append(finished, id)
  /\ UNCHANGED <<invoked, stderrOf>>

\* overlapping passes
Next ==
  \/ Lint(PubTexts, MaxPasses)
  \/ \E id \in pending : ExecCallback(id)

Spec == Init /\ [][Next]_vars

\* one pass over a text of header, plain and malformed lines
NextParse ==
  \/ Lint(ParseTexts, 1)
  \/ \E id \in pending : ExecCallback(id)

SpecParse == Init /\ [][NextParse]_vars

\* one pass over a diagnostic block
NextBlock ==
  \/ Lint(BlockTexts, 1)
  \/ \E id \in pending : ExecCallback(id)

SpecBlock == Init /\ [][NextBlock]_vars

(***************************************************************************)
(* What the properties speak of.                                           *)
(***************************************************************************)
\* the diagnostics the editor shows for the file of a path
Visible(collection, path) ==
  IF Uri_file(path) \in DOMAIN collection THEN collection[Uri_file(path)] ELSE <<>>

\* the diagnostics a DiagnosticSet holds for a path
Stored(map, path) == IF path \in DOMAIN map THEN map[path] ELSE <<>>

PathsShown(collection) == {u.fsPath : u \in DOMAIN collection}

\* the members of a set of numbers in increasing order
RECURSIVE Ascending(_)
Ascending(S) == IF S = {} THEN <<>> ELSE <<Min(S)>> \o Ascending(S \ {Min(S)})

IsHeader(line) == startsWith(line, <<"%">>)

\* header lines among the first upto lines with this path as location and a
\* line number, in input order
LocatedHeaders(lines, upto, path) ==
  Ascending({h \in 1..upto :
               /\ IsHeader(lines[h])
               /\ errorParserRegex(lines[h]).matched
               /\ errorParserRegex(lines[h]).filePath = path
               /\ errorParserRegex(lines[h]).lineNumber # undefined})

\* the paths of the header lines among the first upto lines
HeaderPaths(lines, upto) ==
  {errorParserRegex(lines[h]).filePath :
     h \in {i \in 1..upto : IsHeader(lines[i]) /\ errorParserRegex(lines[i]).matched}}
    \ {undefined}

\* the index of the first line after h that starts with "%", or the end
NextHeader(lines, h) ==
  Min({j \in (h + 1)..Len(lines) : IsHeader(lines[j])} \cup {Len(lines) + 1})

\* the 0-based line and column a header states
HeaderLine0(line) == DecimalValue(errorParserRegex(line).lineNumber, 0) - 1

HeaderCol0(line) ==
  IF errorParserRegex(line).columnNumber = undefined THEN 0
  ELSE DecimalValue(errorParserRegex(line).columnNumber, 0) - 1

\* every Diagnostic of the most recent pass with the index of its header line
Emitted ==
  UNION {{[path |-> path, k |-> k, h |-> LocatedHeaders(stderrLines, scanned, path)[k],
           diag |-> filesDiag[path][k]] :
            k \in (1..Len(filesDiag[path]))
                    \cap (1..Len(LocatedHeaders(stderrLines, scanned, path)))} :
         path \in DOMAIN filesDiag}

\* a callback has ended in this step and has published its filesDiag
C1_Publishes == finished' # finished /\ ~threw'

(***************************************************************************)
(* C1  Replace semantics.  Whenever a pass publishes, the diagnostics the  *)
(* editor shows are, for every file, exactly those of that pass's          *)
(* filesDiag: a file that showed diagnostics before and is absent from     *)
(* the publishing pass's filesDiag shows none afterwards, and nothing of   *)
(* an earlier pass is merged in.                                           *)
(***************************************************************************)
C1_ReplaceSemantics ==
  [][C1_Publishes =>
       /\ \A path \in PathsShown(diagnosticCollection) \cup PathsShown(diagnosticCollection')
                        \cup DOMAIN filesDiag' :
            Visible(diagnosticCollection', path) = Stored(filesDiag', path)
       /\ \A path \in PathsShown(diagnosticCollection) :
            (Visible(diagnosticCollection, path) # <<>> /\ path \notin DOMAIN filesDiag')
              => Visible(diagnosticCollection', path) = <<>>]_vars

\* a second pass has just published, and a file the first pass published
\* diagnostics for is absent from it and shows nothing
C1_Witness ==
  /\ Len(finished) = 2
  /\ ~threw
  /\ \E path \in DOMAIN parse(stderrOf[finished[1]]).filesDiag :
       /\ parse(stderrOf[finished[1]]).filesDiag[path] # <<>>
       /\ path \notin DOMAIN filesDiag
       /\ Visible(diagnosticCollection, path) = <<>>
  /\ \E path \in DOMAIN filesDiag : Visible(diagnosticCollection, path) # <<>>

(***************************************************************************)
(* C2  Pass ordering under overlap.  When every pass that was invoked has  *)
(* been called back, the diagnostics the editor shows are those of the     *)
(* pass invoked last, whatever the order of the callbacks.                 *)
(***************************************************************************)
C2_LatestPassWins ==
  (invoked >= 2 /\ pending = {} /\ Len(finished) = invoked) =>
    \A path \in PathsShown(diagnosticCollection)
                  \cup DOMAIN parse(stderrOf[invoked]).filesDiag :
      Visible(diagnosticCollection, path) = Stored(parse(stderrOf[invoked]).filesDiag, path)

(***************************************************************************)
(* C3  No fatal error for malformed input.  Every pass scans every line    *)
(* of its input to the end and publishes its filesDiag, also when a line   *)
(* starts with "%" and does not fit the header grammar.                    *)
(***************************************************************************)
C3_NeverFatal ==
  finished # <<>> =>
    /\ ~threw
    /\ scanned = Len(stderrLines)
    /\ \A path \in DOMAIN filesDiag :
         Visible(diagnosticCollection, path) = filesDiag[path]

(***************************************************************************)
(* C4  Empty input.  A pass over the empty text makes no call on the       *)
(* passthrough sink and publishes no diagnostics for any file.             *)
(***************************************************************************)
C4_EmptyInputIsSilent ==
  (finished # <<>> /\ stderrOf[finished[Len(finished)]] = <<>>) =>
    passthrough = <<>> /\ DOMAIN diagnosticCollection = {}

\* the Diagnostic is the one of this header line
DiagnosticOf(diag, line) ==
  /\ diag.message = errorParserRegex(line).verboseError
  /\ diag.code = errorParserRegex(line).errorCode
  /\ diag.severity = convertToSeverity(errorParserRegex(line).severity)
  /\ diag.range.start = Position(HeaderLine0(line), HeaderCol0(line))

\* the entries of filesDiag are those of the located headers among the first upto lines
OnePerLocatedHeader(upto) ==
  \A path \in DOMAIN filesDiag \cup HeaderPaths(stderrLines, upto) :
    /\ Len(Stored(filesDiag, path)) = Len(LocatedHeaders(stderrLines, upto, path))
    /\ \A k \in 1..Len(Stored(filesDiag, path)) :
         DiagnosticOf(filesDiag[path][k],
                      stderrLines[LocatedHeaders(stderrLines, upto, path)[k]])

(***************************************************************************)
(* C5  One Diagnostic per located header, in input order.  For every       *)
(* input and every path, when the callback has ended the sequence stored   *)
(* under the path in the pass's filesDiag is one Diagnostic per header     *)
(* line of the input that has that path as its location and a line         *)
(* number, in the order of those header lines; headers without a location  *)
(* and plain lines contribute nothing.                                     *)
(***************************************************************************)
C5_OnePerLocatedHeader == finished # <<>> => OnePerLocatedHeader(Len(stderrLines))

\* the same of the lines scanned before the callback ended: this holds, and
\* a callback that did not throw scanned every line
C5_OfScannedLines ==
  (~threw => scanned = Len(stderrLines)) /\ OnePerLocatedHeader(scanned)

\* a completed pass with two files, one of them with two different Diagnostics
C5_ScannedWitness ==
  /\ finished # <<>> /\ ~threw
  /\ Cardinality(DOMAIN filesDiag) >= 2
  /\ \E path \in DOMAIN filesDiag :
       Len(filesDiag[path]) >= 2 /\ filesDiag[path][1] # filesDiag[path][2]

(***************************************************************************)
(* C6  Drop rule.  A header with a file path and no valid line number      *)
(* leaves nothing in the pass's filesDiag: every entry of filesDiag, an    *)
(* empty one included, is there on account of a header with that path      *)
(* and a line number.                                                      *)
(***************************************************************************)
C6_DroppedHeaderLeavesNoEntry ==
  \A path \in DOMAIN filesDiag : LocatedHeaders(stderrLines, scanned, path) # <<>>

\* the lines before index n that start with "%Error" or "%Warning"
SeverityMarks(lines, n) ==
  {i \in 1..(n - 1) :
     \/ startsWith(lines[i], <<"%", "E", "r", "r", "o", "r">>)
     \/ startsWith(lines[i], <<"%", "W", "a", "r", "n", "i", "n", "g">>)}

BackfillLevel(lines, n) ==
  IF SeverityMarks(lines, n) # {}
     /\ startsWith(lines[Max(SeverityMarks(lines, n))], <<"%", "W", "a", "r", "n", "i", "n", "g">>)
    THEN "warn" ELSE "error"

\* the passthrough calls the plain lines among the first upto lines are due
PlainCalls(lines, upto) ==
  [k \in 1..Len(Ascending({i \in 1..upto : ~IsHeader(lines[i])})) |->
     logCall(BackfillLevel(lines, Ascending({i \in 1..upto : ~IsHeader(lines[i])})[k]),
             lines[Ascending({i \in 1..upto : ~IsHeader(lines[i])})[k]])]

IsPlainCall(call) == ~IsHeader(call.text)

(***************************************************************************)
(* C8  Severity backfill.  When the callback has ended, every line of the  *)
(* input that does not start with "%" has been forwarded to the            *)
(* passthrough sink exactly once, in input order, as a warning if the      *)
(* nearest line before it that starts with "%Error" or "%Warning" starts   *)
(* with "%Warning", and as an error otherwise.                             *)
(***************************************************************************)
C8_SeverityBackfill ==
  finished # <<>> =>
    SelectSeq(passthrough, IsPlainCall) = PlainCalls(stderrLines, Len(stderrLines))

\* the same of the lines scanned before the callback ended: this holds
C8_BackfillOfScannedLines ==
  SelectSeq(passthrough, IsPlainCall) = PlainCalls(stderrLines, scanned)

\* the highlight lines of the block of the header at index h
HighlightLines(lines, h) ==
  {j \in (h + 1)..(NextHeader(lines, h) - 1) : highlightRegex(lines[j]).matched}

ExpectedEndCol(lines, h) ==
  IF HighlightLines(lines, h) = {} THEN MAX_VALUE
  ELSE HeaderCol0(lines[h])
         + Len(highlightRegex(lines[Min(HighlightLines(lines, h))]).highlight)

(***************************************************************************)
(* C7  Primary highlight sizing.  The range of every Diagnostic starts at  *)
(* the column of its header and ends at that column plus the length of     *)
(* the caret and tildes of the first highlight line between the header     *)
(* and the next line that starts with "%"; with no highlight line there    *)
(* it ends at MAX_VALUE.  A highlight line after the next header never     *)
(* sizes it.                                                               *)
(***************************************************************************)
C7_PrimaryHighlightSizing ==
  \A e \in Emitted :
    /\ e.diag.range.start = Position(HeaderLine0(stderrLines[e.h]), HeaderCol0(stderrLines[e.h]))
    /\ e.diag.range.end =
         Position(HeaderLine0(stderrLines[e.h]), ExpectedEndCol(stderrLines, e.h))

\* a Diagnostic without a highlight in its block stays unbounded although a
\* highlight line follows the next header, which that line sizes
C7_Witness ==
  \E e1 \in Emitted, e2 \in Emitted :
    /\ e1.h < e2.h
    /\ e1.diag.range.end.character = MAX_VALUE
    /\ e2.diag.range.end.character = e2.diag.range.start.character + 3
    /\ HighlightLines(stderrLines, e2.h) # {}

(***************************************************************************)
(* C9  No forward scan crosses into the next block.  Every Diagnostic,     *)
(* its related messages and its end column included, derives only from     *)
(* its header and the lines between the header and the next line that      *)
(* starts with "%": it is the Diagnostic the header gets when the input    *)
(* ends before that line, whatever that line holds.                        *)
(***************************************************************************)
C9_ScansStayInBlock ==
  \A e \in Emitted :
    e.diag = mainMessageDiag(SubSeq(stderrLines, 1, NextHeader(stderrLines, e.h) - 1), e.h,
                             errorParserRegex(stderrLines[e.h]), e.path)

(***************************************************************************)
(* The ranges of the secondary messages of a block.                        *)
(***************************************************************************)
\* the bottom message lines of the block of the header at index h
BottomLines(lines, h) ==
  Ascending({j \in (h + 1)..(NextHeader(lines, h) - 1) : bottomMessageRegex(lines[j]).matched})

\* the last line before the next bottom message or header
SpanEnd(lines, h, b) ==
  IF b < Len(BottomLines(lines, h)) THEN BottomLines(lines, h)[b + 1] - 1
  ELSE NextHeader(lines, h) - 1

\* the highlight lines that refine the b-th bottom message: those from its
\* own line on, the line of the first message of the block excepted
RefiningLines(lines, h, b) ==
  {i \in BottomLines(lines, h)[b]..SpanEnd(lines, h, b) :
     highlightRegex(lines[i]).matched /\ (i > BottomLines(lines, h)[b] \/ b > 1)}

BottomStart(lines, h, b) ==
  IF bottomMessageRegex(lines[BottomLines(lines, h)[b]]).filePath # undefined
    THEN Position(
           DecimalValue(bottomMessageRegex(lines[BottomLines(lines, h)[b]]).lineNumber, 0) - 1,
           DecimalValue(bottomMessageRegex(lines[BottomLines(lines, h)[b]]).columnNumber, 0) - 1)
    ELSE Position(HeaderLine0(lines[h]), HeaderCol0(lines[h]))

BottomUnrefinedEnd(lines, h, b) ==
  IF bottomMessageRegex(lines[BottomLines(lines, h)[b]]).filePath # undefined
    THEN MAX_VALUE ELSE ExpectedEndCol(lines, h)

\* the range of the b-th bottom message when the highlight line at index i refines it
RefinedBy(lines, h, b, i) ==
  [start |-> BottomStart(lines, h, b),
   end |-> Position(BottomStart(lines, h, b).line,
                    BottomStart(lines, h, b).character + Len(highlightRegex(lines[i]).highlight))]

Unrefined(lines, h, b) ==
  [start |-> BottomStart(lines, h, b),
   end |-> Position(BottomStart(lines, h, b).line, BottomUnrefinedEnd(lines, h, b))]

(***************************************************************************)
(* C10 as stated: at most one refinement per secondary message.  The       *)
(* range of a secondary message is set by the first highlight line that    *)
(* refines it; a further highlight line before the next secondary message  *)
(* or header leaves it unchanged.                                          *)
(***************************************************************************)
C10_AtMostOneRefinement ==
  \A e \in Emitted :
    \A b \in 1..Len(BottomLines(stderrLines, e.h)) :
      /\ b <= Len(e.diag.relatedInformation)
      /\ e.diag.relatedInformation[b].location.range =
           IF RefiningLines(stderrLines, e.h, b) = {} THEN Unrefined(stderrLines, e.h, b)
           ELSE RefinedBy(stderrLines, e.h, b, Min(RefiningLines(stderrLines, e.h, b)))

(***************************************************************************)
(* C10 amended: every highlight line after the first secondary message of  *)
(* a block refines the most recently pushed secondary message, so that     *)
(* the last highlight line before the next secondary message or header     *)
(* sets its end column; the ranges of the other secondary messages and     *)
(* of the Diagnostic do not change.                                        *)
(***************************************************************************)
C10_LastHighlightRefines ==
  \A e \in Emitted :
    /\ e.diag.range.end =
         Position(HeaderLine0(stderrLines[e.h]), ExpectedEndCol(stderrLines, e.h))
    /\ \A b \in 1..Len(BottomLines(stderrLines, e.h)) :
         /\ b <= Len(e.diag.relatedInformation)
         /\ e.diag.relatedInformation[b].location.range =
              IF RefiningLines(stderrLines, e.h, b) = {} THEN Unrefined(stderrLines, e.h, b)
              ELSE RefinedBy(stderrLines, e.h, b, Max(RefiningLines(stderrLines, e.h, b)))

\* a secondary message followed by two highlight lines of different lengths
C10_Witness ==
  \E e \in Emitted :
    \E b \in 1..Len(BottomLines(stderrLines, e.h)) :
      \E i \in RefiningLines(stderrLines, e.h, b), j \in RefiningLines(stderrLines, e.h, b) :
        /\ i < j
        /\ Len(highlightRegex(stderrLines[i]).highlight)
             # Len(highlightRegex(stderrLines[j]).highlight)
        /\ e.diag.relatedInformation[b].location.range = RefinedBy(stderrLines, e.h, b, j)

====
